---- MODULE Spec2Model ----
(***************************************************************************)
(* Model of the authentication provider of the recipe application          *)
(* (hooks/use-auth: AuthProvider).  The React state `user` and `loading`,  *)
(* the identity provider's session and accounts, the Profile Store         *)
(* documents and the device's localStorage are the state.                  *)
(*                                                                         *)
(* Every asynchronous function is cut at its awaits.  One action calls the *)
(* operation and runs it to its first await; one action per await settles  *)
(* the awaited call, with success or with a rejection, applies the call's  *)
(* effect on the collaborator and runs the code up to the next await or to *)
(* the end.  onAuthStateChanged is a queue: every change of the provider's *)
(* session appends a notification, and handleUser is started on the head   *)
(* of the queue at any later moment, so that passes of handleUser overlap  *)
(* with each other and with the operations.                                *)
(***************************************************************************)
EXTENDS Naturals, Sequences, FiniteSets

\* ------------------------------------------------------------------ bounds
\* Values of the clock read by `new Date()`: 0..MaxClock.
MaxClock == 1
\* handleUser passes suspended at an await at the same time.
MaxPasses == 2
\* Calls of the coordinator's operations in one behaviour.
MaxOps == 2
\* Operations in flight (suspended at an await) at the same time.
MaxInFlight == 1
\* Readings of the clock that differ, a third of the password cooldown apart.
MaxTimeSteps == 4

\* ------------------------------------------------------------- the accounts
\* a1: an account with a verified email; a2: an account whose email is not
\* verified; a3: the account createUserWithEmailAndPassword creates.
Uids == {"a1", "a2", "a3"}
NoUser == "null"
NewUid == "a3"

\* -------------------------------------------------------------------- errors
\* A rejected promise's reason: the call that failed, error.code, and whether
\* error.message contains the text 'sendEmailVerification'.
NoErr == [src |-> "none", code |-> "none", mentions |-> FALSE]
NetworkFailed == "auth/network-request-failed"
\* The ways a call of the identity provider or of the Profile Store fails.
Errs(call) == {[src |-> call, code |-> "other", mentions |-> FALSE]}
\* The ways a step of signUpWithEmail's try block fails.
BlockErrs(call) ==
    {[src |-> call, code |-> NetworkFailed, mentions |-> FALSE],
     [src |-> call, code |-> "other", mentions |-> FALSE],
     [src |-> call, code |-> "other", mentions |-> TRUE]}
\* The errors the coordinator throws itself (new Error(message)): no code.
NotVerified == [src |-> "Email not verified", code |-> "none", mentions |-> FALSE]
DomainNotAllowed == [src |-> "Please use a valid email provider", code |-> "none", mentions |-> FALSE]
VerificationSendFailed == [src |-> "Failed to send verification email.", code |-> "none", mentions |-> FALSE]
\* updateDoc on a document that does not exist.
NotFound == [src |-> "updateDoc", code |-> "not-found", mentions |-> FALSE]

\* currentUser.displayName, .email, .photoURL of the account u, as the
\* identity provider reports them.
ProviderUser(u) ==
    [displayName |-> [a1 |-> "Ann", a2 |-> "Bob", a3 |-> "Ada"][u],
     email |-> [a1 |-> "ann@gmail.com", a2 |-> "bob@gmail.com", a3 |-> "user@gmail.com"][u],
     photoURL |-> [a1 |-> "ann.png", a2 |-> "null", a3 |-> "null"][u]]

\* ------------------------------------------------------------- local storage
\* An item of localStorage: null (missing), or a string.
Null == "null"
ParseError == <<"SyntaxError">>
\* JSON.parse of the strings above.
JSONParse(s) ==
    CASE s = "[]" -> <<>>
      [] s = "[r1]" -> <<"r1">>
      [] OTHER -> ParseError
\* JSON.parse(localStorage.getItem(key) || '[]')
ReadLocal(item) == JSONParse(IF item = Null \/ item = "" THEN "[]" ELSE item)
\* The device's storage when the application starts.
LocalStorageStates ==
    { [cookbookRecipes |-> "[r1]", variationBook |-> Null],
      [cookbookRecipes |-> "[r1]", variationBook |-> "{bad"] }

\* ---------------------------------------------------------------- the emails
\* An email is a sequence of tokens; "@" is the separator.
Emails ==
    { <<"user", "@", "gmail.com">>,
      <<"user", "@", "contoso.io">>,
      <<"user">>,
      <<"x", "@", "gmail.com", "@", "evil.io">> }
ALLOWED_DOMAINS == { <<"gmail.com">>, <<"yahoo.com">>, <<"outlook.com">>, <<"microsoft.com">> }
Undefined == <<"undefined">>

RECURSIVE SplitFrom(_, _, _, _)
\* String.prototype.split: the segments of s between the separators.
SplitFrom(s, sep, i, cur) ==
    IF i > Len(s) THEN <<cur>>
    ELSE IF s[i] = sep THEN <<cur>> \o SplitFrom(s, sep, i + 1, <<>>)
    ELSE SplitFrom(s, sep, i + 1, Append(cur, s[i]))
Split(s, sep) == SplitFrom(s, sep, 1, <<>>)
\* email.split('@')[1]
DomainOf(email) ==
    LET parts == Split(email, "@")
    IN IF Len(parts) >= 2 THEN parts[2] ELSE Undefined
\* ALLOWED_DOMAINS.includes(domain)
DomainAllowed(email) == DomainOf(email) \in ALLOWED_DOMAINS

VARIABLES
    user,        \* useState `user`: NoUser or a uid
    loading,     \* useState `loading`
    authUser,    \* the identity provider's session: NoUser or a uid
    accounts,    \* the identity provider's accounts: uid -> absent, live or deleted
    verified,    \* the accounts whose email is verified
    queue,       \* session-change notifications not yet delivered
    passes,      \* handleUser passes suspended at an await
    profiles,    \* the Profile Store: uid -> NoDoc or a document
    localStore,  \* localStorage: cookbookRecipes and variationBook
    now,         \* the clock
    signIn,      \* the signInWithEmail call
    signUp,      \* the signUpWithEmail call
    signOutOp,   \* the signOut call
    reset,       \* the sendPasswordReset call
    google,      \* the signInWithGoogle call
    opsCalled,   \* operations called so far
    lastNote,    \* the notification delivered last
    ended,       \* how the pass that ended last ended
    redirect,    \* the getRedirectResult check started with the provider
    dialog,      \* the auth dialog: its React state and its handler in progress
    settings,    \* the settings dialog: its React state and its stored cooldown
    dateNow      \* Date.now(), in ms since the application was first loaded

vars == <<user, loading, authUser, accounts, verified, queue, passes, profiles,
          localStore, now, signIn, signUp, signOutOp, reset, google, opsCalled,
          lastNote, ended, redirect, dialog, settings, dateNow>>

\* A Profile document; seeded and createdFirst record its history: how many
\* provisioning upserts wrote it, and the createdAt its first write gave it.
NoDoc ==
    [exists |-> FALSE, displayName |-> Null, email |-> Null, photoURL |-> Null,
     lastLogin |-> 0, createdAt |-> 0, cookbook |-> <<>>,
     variationBook |-> <<>>, seeded |-> 0, createdFirst |-> 0]
NoNote == [u |-> "none yet", verified |-> FALSE]
NotEnded == [how |-> "none", branch |-> "none", loading |-> TRUE]

\* One record shape for every operation's call.
IdleOp ==
    [pc |-> "idle", arg |-> <<>>, uid |-> NoUser, err |-> NoErr, result |-> NoErr,
     calls |-> <<>>, toasts |-> <<>>, ts |-> 0]

\* onAuthStateChanged: a notification for every change of the session.
Notify(q, old, new) == IF old = new THEN q ELSE Append(q, [u |-> new, verified |-> new \in verified])

RemoveAt(s, i) == SubSeq(s, 1, i - 1) \o SubSeq(s, i + 1, Len(s))

InFlight(op) == op.pc \notin {"idle", "done"}
NumInFlight ==
    Cardinality({i \in 1..5 : InFlight(<<signIn, signUp, signOutOp, reset, google>>[i])})
\* The page is gone once signInWithRedirect has navigated away.
PageAlive == google.pc # "navigated"
CanCall == PageAlive /\ opsCalled < MaxOps /\ NumInFlight < MaxInFlight
\* A finished call's outcome is forgotten when the next call is made.
Forget(op) == IF op.pc = "done" THEN IdleOp ELSE op

\* ------------------------------------------------- the settings dialog's state
\* const PASSWORD_COOLDOWN_MS = 15 * 60 * 1000
PASSWORD_COOLDOWN_MS == 900000
\* The clock is read at multiples of a third of the cooldown.
TimeStep == PASSWORD_COOLDOWN_MS \div 3

\* A string is the sequence of its characters; getItem of a missing item is
\* as falsy as the empty string.
NoItem == <<>>
\* useState<number | null>(null): null is <<>>, the number t is <<t>>.
NoTime == <<>>

Digit(d) == <<"0", "1", "2", "3", "4", "5", "6", "7", "8", "9">>[d + 1]
\* String(n) of a natural number: its decimal digits.
RECURSIVE String(_)
String(n) == IF n < 10 THEN <<Digit(n)>> ELSE Append(String(n \div 10), Digit(n % 10))
\* parseInt(s, 10) of a string of decimal digits.
RECURSIVE ParseInt(_)
ParseInt(s) ==
    IF Len(s) = 1 THEN CHOOSE d \in 0..9 : Digit(d) = s[1]
    ELSE 10 * ParseInt(SubSeq(s, 1, Len(s) - 1))
         + (CHOOSE d \in 0..9 : Digit(d) = s[Len(s)])

\* updateRemaining, called by the effect on cooldownEndTime and every second
\* after it: the cooldown that has run out is cleared, in the state and in
\* localStorage.
UpdateRemaining(s, t) ==
    IF s.cooldownEndTime = NoTime THEN s
    ELSE LET remaining == IF s.cooldownEndTime[1] > t THEN s.cooldownEndTime[1] - t ELSE 0
         IN IF remaining = 0
            THEN [s EXCEPT !.remainingCooldown = 0, !.cooldownEndTime = NoTime,
                           !.passwordCooldownEnd = NoItem]
            ELSE [s EXCEPT !.remainingCooldown = remaining]

\* Mutant: the stored end time is not read back.
StoredCooldownIgnored(s, t) == s

\* The effect on [apiKey, isOpen]: the stored end time is taken over while it
\* lies ahead, and removed otherwise.
StoredCooldown(s, t) ==
    IF s.passwordCooldownEnd = NoItem THEN s
    ELSE LET endTime == ParseInt(s.passwordCooldownEnd)
         IN IF endTime > t
            THEN UpdateRemaining([s EXCEPT !.cooldownEndTime = <<endTime>>], t)
            ELSE [s EXCEPT !.passwordCooldownEnd = NoItem]

\* The component is mounted at time t with localStorage holding `item`;
\* requestedAt records when a reset was last requested.
Mounted(item, requestedAt, t) ==
    StoredCooldown([isOpen |-> FALSE, cooldownEndTime |-> NoTime, remainingCooldown |-> 0,
                    isChangingPassword |-> FALSE, awaits |-> FALSE, toasts |-> <<>>,
                    passwordCooldownEnd |-> item, requestedAt |-> requestedAt], t)

Init ==
    /\ user = NoUser
    /\ loading = TRUE
    /\ authUser \in {NoUser, "a1"}
    /\ accounts = [u \in Uids |-> IF u = NewUid THEN "absent" ELSE "live"]
    /\ verified = {"a1"}
    /\ queue = <<[u |-> authUser, verified |-> authUser \in {"a1"}]>>
    /\ passes = <<>>
    /\ profiles = [u \in Uids |-> NoDoc]
    /\ localStore \in LocalStorageStates
    /\ now = 0
    /\ signIn = IdleOp
    /\ signUp = IdleOp
    /\ signOutOp = IdleOp
    /\ reset = IdleOp
    /\ google = IdleOp
    /\ opsCalled = 0
    /\ lastNote = NoNote
    /\ ended = NotEnded
    /\ redirect = [IdleOp EXCEPT !.pc = "getRedirectResult",
                                 !.calls = <<"getRedirectResult">>]
    /\ dialog = [isOpen |-> FALSE, isLoading |-> FALSE, signInEmail |-> "",
                 signInError |-> Null, signUpError |-> Null,
                 resetEmailSent |-> FALSE, awaits |-> {}, toasts |-> <<>>,
                 lastSignInEmail |-> Null]
    /\ settings = Mounted(NoItem, NoTime, 0)
    /\ dateNow = 0

\* new Date(): the clock has not gone back since it was last read.
Dates == {t \in now..MaxClock : t <= now + 1}
\* ------------------------------------------------------------- handleUser
\* A pass of handleUser suspended at an await.
Pass(u, pc, data) == [u |-> u, pc |-> pc, data |-> data]
NoData == [lastLogin |-> 0]

\* Mutant: the emailVerified test is missing.
IsUser(n) == n.u # NoUser

\* if (currentUser && currentUser.emailVerified)
IsVerifiedUser(n) == n.u # NoUser /\ n.verified

\* Mutant: the pass ends without setLoading(false).
LoadingLeftAsIs == loading

\* setLoading(false), as the last statement of a pass.
LoadingAfterPass == FALSE

\* The pass that ended: how, in which branch, and the loading flag it left.
Ended(how, branch, l) == [how |-> how, branch |-> branch, loading |-> l]

\* Mutant: the write replaces the whole document.
ReplaceDoc(old, data) ==
    [f \in DOMAIN old |-> IF f \in DOMAIN data THEN data[f] ELSE NoDoc[f]]

\* setDoc(ref, data, { merge: true }): the fields of data replace the document's.
MergeDoc(old, data) ==
    [f \in DOMAIN old |-> IF f \in DOMAIN data THEN data[f] ELSE old[f]]

\* onAuthStateChanged delivers the next notification: handleUser runs to its
\* first await (verified user) or to its end.
HandleUser ==
    /\ PageAlive
    /\ queue # <<>>
    /\ LET n == Head(queue)
       IN /\ lastNote' = n
          /\ queue' = Tail(queue)
          /\ IF IsVerifiedUser(n)
             THEN /\ Len(passes) < MaxPasses
                  /\ user' = n.u
                  /\ passes' = Append(passes, Pass(n.u, "getDoc", NoData))
                  /\ UNCHANGED <<loading, ended>>
             ELSE /\ user' = NoUser
                  /\ loading' = LoadingAfterPass
                  /\ ended' = Ended("completed",
                                    IF n.u = NoUser THEN "no user" ELSE "unverified",
                                    loading')
                  /\ UNCHANGED passes
    /\ UNCHANGED <<settings, dateNow, dialog, redirect, authUser, accounts, verified, profiles, localStore, now, signIn,
                   signUp, signOutOp, reset, google, opsCalled>>

\* A pass dies with a rejected promise: nothing after the await runs.
PassThrows(i) ==
    /\ passes' = RemoveAt(passes, i)
    /\ ended' = Ended("failed", "verified", loading)
    /\ UNCHANGED loading

\* A pass dies in JSON.parse, before setDoc is called.
ParseThrows(i) ==
    /\ passes' = RemoveAt(passes, i)
    /\ ended' = Ended("parse error", "verified", loading)
    /\ UNCHANGED loading

\* getDoc(userDocRef) settles; on success the pass runs to its next await.
HandleUser_getDoc(i) ==
    /\ PageAlive
    /\ i \in 1..Len(passes)
    /\ passes[i].pc = "getDoc"
    /\ LET p == passes[i]
           localCookbook == ReadLocal(localStore.cookbookRecipes)
           localVariations == ReadLocal(localStore.variationBook)
       IN \/ PassThrows(i) /\ UNCHANGED now
          \/ /\ ~profiles[p.u].exists
             /\ IF localCookbook = ParseError \/ localVariations = ParseError
                THEN ParseThrows(i) /\ UNCHANGED now
                ELSE /\ \E t \in Dates :
                           /\ now' = t
                           /\ passes' = [passes EXCEPT ![i] =
                                  Pass(p.u, "setDoc",
                                       [displayName |-> ProviderUser(p.u).displayName,
                                        email |-> ProviderUser(p.u).email,
                                        photoURL |-> ProviderUser(p.u).photoURL,
                                        lastLogin |-> t, createdAt |-> t,
                                        cookbook |-> localCookbook,
                                        variationBook |-> localVariations])]
                     /\ UNCHANGED <<loading, ended>>
          \/ /\ profiles[p.u].exists
             /\ \E t \in Dates :
                   /\ now' = t
                   /\ passes' = [passes EXCEPT ![i] =
                                    Pass(p.u, "updateDoc", [lastLogin |-> t])]
             /\ UNCHANGED <<loading, ended>>
    /\ UNCHANGED <<settings, dateNow, dialog, redirect, user, authUser, accounts, verified, queue, profiles, localStore,
                   signIn, signUp, signOutOp, reset, google, opsCalled, lastNote>>

\* The document after the provisioning upsert.
Provisioned(old, data) ==
    [MergeDoc(old, data) EXCEPT !.exists = TRUE,
                                !.seeded = old.seeded + 1,
                                !.createdFirst = IF old.exists THEN old.createdFirst
                                                 ELSE data.createdAt]

\* The pass ends: setLoading(false).
PassCompletes(i) ==
    /\ passes' = RemoveAt(passes, i)
    /\ loading' = LoadingAfterPass
    /\ ended' = Ended("completed", "verified", loading')

\* setDoc(userDocRef, {...}, { merge: true }) settles.
HandleUser_setDoc(i) ==
    /\ PageAlive
    /\ i \in 1..Len(passes)
    /\ passes[i].pc = "setDoc"
    /\ \/ PassThrows(i) /\ UNCHANGED profiles
       \/ /\ profiles' = [profiles EXCEPT ![passes[i].u] = Provisioned(@, passes[i].data)]
          /\ PassCompletes(i)
    /\ UNCHANGED <<settings, dateNow, dialog, redirect, user, authUser, accounts, verified, queue, localStore, now,
                   signIn, signUp, signOutOp, reset, google, opsCalled, lastNote>>

\* updateDoc(ref, fields): fails when the document does not exist.
UpdateDocFails(doc) == ~doc.exists

\* updateDoc(userDocRef, { lastLogin: new Date() }) settles.
HandleUser_updateDoc(i) ==
    /\ PageAlive
    /\ i \in 1..Len(passes)
    /\ passes[i].pc = "updateDoc"
    /\ \/ PassThrows(i) /\ UNCHANGED profiles
       \/ /\ ~UpdateDocFails(profiles[passes[i].u])
          /\ profiles' = [profiles EXCEPT ![passes[i].u] = MergeDoc(@, passes[i].data)]
          /\ PassCompletes(i)
    /\ UNCHANGED <<settings, dateNow, dialog, redirect, user, authUser, accounts, verified, queue, localStore, now,
                   signIn, signUp, signOutOp, reset, google, opsCalled, lastNote>>
\* ------------------------------------------------------------ the operations
Resolved == [src |-> "resolved", code |-> "none", mentions |-> FALSE]

\* An operation is called: its call starts, the finished calls are forgotten.
StartOp(name, call) ==
    /\ CanCall
    /\ opsCalled' = opsCalled + 1
    /\ signIn' = IF name = "signInWithEmail" THEN call ELSE Forget(signIn)
    /\ signUp' = IF name = "signUpWithEmail" THEN call ELSE Forget(signUp)
    /\ signOutOp' = IF name = "signOut" THEN call ELSE Forget(signOutOp)
    /\ reset' = IF name = "sendPasswordReset" THEN call ELSE Forget(reset)
    /\ google' = IF name = "signInWithGoogle" THEN call ELSE Forget(google)

\* The call is suspended at the await of `call`.
Awaiting(op, call) == [op EXCEPT !.pc = call, !.calls = Append(@, call)]
\* The call ends: resolved, or rejected with an error.
Done(op, result) == [op EXCEPT !.pc = "done", !.result = result]
Toast(op, title) == [op EXCEPT !.toasts = Append(@, title)]
\* toast({ variant: "destructive", title, description })
ToastWith(op, title, description) ==
    [op EXCEPT !.toasts = Append(@, [title |-> title, description |-> description])]
\* ... with description: error.message
ToastError(op, title, error) == ToastWith(op, title, error.src)

\* firebaseSignOut(auth) succeeds: the session ends.
ProviderSignsOut ==
    /\ authUser' = NoUser
    /\ queue' = Notify(queue, authUser, NoUser)

\* ------------------------------------------------------------------ signOut
SignOut ==
    /\ StartOp("signOut", Awaiting(IdleOp, "firebaseSignOut"))
    /\ UNCHANGED <<settings, dateNow, dialog, redirect, user, loading, authUser, accounts, verified, queue, passes, profiles,
                   localStore, now, lastNote, ended>>

\* Mutant: signOut leaves `user` to the notification.
UserKept(u) == u

\* What signOut does to `user` once firebaseSignOut has succeeded: setUser(null).
UserAfterSignOut(u) == NoUser

SignOut_firebaseSignOut ==
    /\ PageAlive
    /\ signOutOp.pc = "firebaseSignOut"
    /\ \/ /\ ProviderSignsOut
          /\ user' = UserAfterSignOut(user)
          /\ signOutOp' = Done(Toast(signOutOp, "Signed Out"), Resolved)
       \/ /\ \E e \in Errs("firebaseSignOut") :
                signOutOp' = Done(ToastError([signOutOp EXCEPT !.err = e],
                                             "Sign-Out Failed", e),
                                  Resolved)
          /\ UNCHANGED <<user, authUser, queue>>
    /\ UNCHANGED <<settings, dateNow, dialog, redirect, loading, accounts, verified, passes, profiles, localStore, now,
                   signIn, signUp, reset, google, opsCalled, lastNote, ended>>

\* The same in two steps: firebaseSignOut(auth) ends the session and
\* fulfils its promise; the code after the await runs at a later moment.
SignOut_sessionEnds ==
    /\ PageAlive
    /\ signOutOp.pc = "firebaseSignOut"
    /\ ProviderSignsOut
    /\ signOutOp' = [signOutOp EXCEPT !.pc = "resuming"]
    /\ UNCHANGED <<settings, dateNow, dialog, redirect, user, loading, accounts, verified, passes, profiles, localStore,
                   now, signIn, signUp, reset, google, opsCalled, lastNote, ended>>

\* signOut resumes after the await: setUser(null); toast(...)
SignOut_resumes ==
    /\ PageAlive
    /\ signOutOp.pc = "resuming"
    /\ user' = UserAfterSignOut(user)
    /\ signOutOp' = Done(Toast(signOutOp, "Signed Out"), Resolved)
    /\ UNCHANGED <<settings, dateNow, dialog, redirect, loading, authUser, accounts, verified, queue, passes, profiles,
                   localStore, now, signIn, signUp, reset, google, opsCalled, lastNote,
                   ended>>

\* ---------------------------------------------------------- signInWithEmail
\* The credentials are those of account `target`.
SignInWithEmailCall(target) ==
    /\ StartOp("signInWithEmail",
               Awaiting([IdleOp EXCEPT !.arg = <<target>>],
                        "signInWithEmailAndPassword"))
    /\ UNCHANGED <<settings, dateNow, redirect, user, loading, authUser, accounts, verified, queue, passes, profiles,
                   localStore, now, lastNote, ended>>

\* The hook's signInWithEmail, called by a component other than the auth dialog.
SignInWithEmail(target) == SignInWithEmailCall(target) /\ UNCHANGED dialog

\* The failures of the identity provider's credential check: error.code says
\* that the password is wrong, that the account is unknown, or neither.
CredentialErrs(target) ==
    {[src |-> "signInWithEmailAndPassword", code |-> c, mentions |-> FALSE] :
        c \in IF accounts[target] = "live"
              THEN {"auth/wrong-password", "auth/invalid-credential"}
              ELSE {"auth/user-not-found", "auth/invalid-credential"}}

\* Mutant: the catch block throws an error of its own.
SignInCaughtWrapped(error) ==
    [src |-> "Sign-in failed", code |-> "none", mentions |-> FALSE]

\* catch (error) { console.error(...); throw error; }
SignInCaught(error) == error

\* signInWithEmailAndPassword settles; if (!result.user.emailVerified) ...
SignIn_signInWithEmailAndPassword ==
    /\ PageAlive
    /\ signIn.pc = "signInWithEmailAndPassword"
    /\ LET target == signIn.arg[1]
       IN \/ /\ \E e \in CredentialErrs(target) :
                    signIn' = Done([signIn EXCEPT !.err = e], SignInCaught(e))
             /\ UNCHANGED <<authUser, queue, now>>
          \/ /\ accounts[target] = "live"
             /\ authUser' = target
             /\ queue' = Notify(queue, authUser, target)
             /\ IF target \notin verified
                THEN /\ signIn' = Awaiting([signIn EXCEPT !.uid = target], "firebaseSignOut")
                     /\ UNCHANGED now
                ELSE \E t \in Dates :
                        /\ now' = t
                        /\ signIn' = Awaiting([signIn EXCEPT !.uid = target, !.ts = t],
                                              "updateDoc")
    /\ UNCHANGED <<settings, dateNow, dialog, redirect, user, loading, accounts, verified, passes, profiles, localStore,
                   signUp, signOutOp, reset, google, opsCalled, lastNote, ended>>

\* What signInWithEmail throws after the forced sign-out of an unverified user.
ErrorAfterForcedSignOut == NotVerified

\* await firebaseSignOut(auth); throw new Error("Email not verified")
SignIn_firebaseSignOut ==
    /\ PageAlive
    /\ signIn.pc = "firebaseSignOut"
    /\ \/ /\ ProviderSignsOut
          /\ signIn' = Done(signIn, SignInCaught(ErrorAfterForcedSignOut))
       \/ /\ \E e \in Errs("firebaseSignOut") :
                signIn' = Done([signIn EXCEPT !.err = e], SignInCaught(e))
          /\ UNCHANGED <<authUser, queue>>
    /\ UNCHANGED <<settings, dateNow, dialog, redirect, user, loading, accounts, verified, passes, profiles, localStore, now,
                   signUp, signOutOp, reset, google, opsCalled, lastNote, ended>>

\* await updateDoc(doc(db, "users", uid), { lastLogin: new Date() }); toast(...)
SignIn_updateDoc ==
    /\ PageAlive
    /\ signIn.pc = "updateDoc"
    /\ \/ /\ \E e \in Errs("updateDoc") :
                signIn' = Done([signIn EXCEPT !.err = e], SignInCaught(e))
          /\ UNCHANGED profiles
       \/ /\ UpdateDocFails(profiles[signIn.uid])
          /\ signIn' = Done([signIn EXCEPT !.err = NotFound], SignInCaught(NotFound))
          /\ UNCHANGED profiles
       \/ /\ ~UpdateDocFails(profiles[signIn.uid])
          /\ profiles' = [profiles EXCEPT ![signIn.uid] = MergeDoc(@, [lastLogin |-> signIn.ts])]
          /\ signIn' = Done(Toast(signIn, "Welcome back"), Resolved)
    /\ UNCHANGED <<settings, dateNow, dialog, redirect, user, loading, authUser, accounts, verified, queue, passes, localStore,
                   now, signUp, signOutOp, reset, google, opsCalled, lastNote, ended>>

\* -------------------------------------------------------- sendPasswordReset
\* The email is that of account `target` (registered or not).
SendPasswordResetCall(target) ==
    /\ StartOp("sendPasswordReset",
               Awaiting([IdleOp EXCEPT !.arg = <<target>>],
                        "sendPasswordResetEmail"))
    /\ UNCHANGED <<dateNow, redirect, user, loading, authUser, accounts, verified, queue, passes, profiles,
                   localStore, now, lastNote, ended>>

\* The hook's sendPasswordReset, called by a component other than the auth dialog.
SendPasswordReset(target) == SendPasswordResetCall(target) /\ UNCHANGED <<dialog, settings>>

\* Mutant: the catch block rethrows.
Rethrown(e) == e

\* What sendPasswordReset's caller gets when sendPasswordResetEmail failed with e.
ResetOutcome(e) == Resolved

SendPasswordReset_sendPasswordResetEmail ==
    /\ PageAlive
    /\ reset.pc = "sendPasswordResetEmail"
    /\ \/ reset' = Done(reset, Resolved)
       \/ \E e \in Errs("sendPasswordResetEmail") :
             reset' = Done([reset EXCEPT !.err = e], ResetOutcome(e))
    /\ UNCHANGED <<settings, dateNow, dialog, redirect, user, loading, authUser, accounts, verified, queue, passes, profiles,
                   localStore, now, signIn, signUp, signOutOp, google, opsCalled,
                   lastNote, ended>>

\* --------------------------------------------------------- signInWithGoogle
SignInWithGoogleCall ==
    /\ StartOp("signInWithGoogle",
               Awaiting(IdleOp, "signInWithRedirect"))
    /\ loading' = TRUE
    /\ UNCHANGED <<settings, dateNow, redirect, user, authUser, accounts, verified, queue, passes, profiles,
                   localStore, now, lastNote, ended>>

\* The hook's signInWithGoogle, called by a component other than the auth dialog.
SignInWithGoogle == SignInWithGoogleCall /\ UNCHANGED dialog

\* signInWithRedirect settles: the page navigates away, or the call fails.
SignInWithGoogle_signInWithRedirect ==
    /\ PageAlive
    /\ google.pc = "signInWithRedirect"
    /\ \/ /\ google' = [google EXCEPT !.pc = "navigated"]
          /\ UNCHANGED loading
       \/ /\ \E e \in Errs("signInWithRedirect") :
                google' = Done(ToastError([google EXCEPT !.err = e], "Sign-In Failed", e),
                               Resolved)
          /\ loading' = FALSE
    /\ UNCHANGED <<settings, dateNow, dialog, redirect, user, authUser, accounts, verified, queue, passes, profiles,
                   localStore, now, signIn, signUp, signOutOp, reset, opsCalled,
                   lastNote, ended>>
\* --------------------------------------------------------- getRedirectResult
StorageUnsupported == "auth/web-storage-unsupported"
\* The ways getRedirectResult(auth) fails.
RedirectErrs ==
    {[src |-> "getRedirectResult", code |-> StorageUnsupported, mentions |-> FALSE],
     [src |-> "getRedirectResult", code |-> "other", mentions |-> FALSE]}

\* Mutant: the catch handler toasts whatever the error's code.
RedirectFailedToasts(op, e) ==
    ToastWith([op EXCEPT !.err = e], "Sign-In Failed",
              "An unexpected error occurred during sign-in.")

\* .catch(error => { if (error.code !== 'auth/web-storage-unsupported') toast(...) })
RedirectFailed(op, e) ==
    IF e.code # StorageUnsupported
    THEN ToastWith([op EXCEPT !.err = e], "Sign-In Failed",
                   "An unexpected error occurred during sign-in.")
    ELSE [op EXCEPT !.err = e]

\* getRedirectResult(auth) settles: a result (the session is the one the
\* redirect signed in), no result, or a rejection; the chain ends resolved.
GetRedirectResult ==
    /\ PageAlive
    /\ redirect.pc = "getRedirectResult"
    /\ \/ /\ authUser # NoUser
          /\ redirect' = Done(Toast([redirect EXCEPT !.uid = authUser], "Welcome back"),
                              Resolved)
       \/ redirect' = Done(redirect, Resolved)
       \/ \E e \in RedirectErrs : redirect' = Done(RedirectFailed(redirect, e), Resolved)
    /\ UNCHANGED <<settings, dateNow, dialog, user, loading, authUser, accounts, verified, queue, passes, profiles,
                   localStore, now, signIn, signUp, signOutOp, reset, google, opsCalled,
                   lastNote, ended>>

\* ---------------------------------------------------------- signUpWithEmail
\* if (!ALLOWED_DOMAINS.includes(domain)) throw ...; await createUser...
SignUpWithEmailCall(email) ==
    /\ StartOp("signUpWithEmail",
               IF DomainAllowed(email)
               THEN Awaiting([IdleOp EXCEPT !.arg = email],
                             "createUserWithEmailAndPassword")
               ELSE Done([IdleOp EXCEPT !.arg = email],
                         DomainNotAllowed))
    /\ UNCHANGED <<settings, dateNow, redirect, user, loading, authUser, accounts, verified, queue, passes, profiles,
                   localStore, now, lastNote, ended>>

\* The hook's signUpWithEmail, called by a component other than the auth dialog.
SignUpWithEmail(email) == SignUpWithEmailCall(email) /\ UNCHANGED dialog

\* The identity provider creates accounts for addresses with one "@" only.
WellFormed(email) == Len(Split(email, "@")) = 2

\* Mutant: createUserWithEmailAndPassword is awaited inside the try block.
CreateFailedInBlock(op, e) == Awaiting([op EXCEPT !.err = e], "deleteUser")

\* createUserWithEmailAndPassword is awaited before the try block: its
\* rejection is the rejection of signUpWithEmail.
CreateFailed(op, e) == Done([op EXCEPT !.err = e], e)

\* createUserWithEmailAndPassword settles: the new account is signed in.
SignUp_createUser ==
    /\ PageAlive
    /\ signUp.pc = "createUserWithEmailAndPassword"
    /\ \/ /\ \E e \in Errs("createUserWithEmailAndPassword") :
                signUp' = CreateFailed(signUp, e)
          /\ UNCHANGED <<authUser, accounts, queue>>
       \/ /\ WellFormed(signUp.arg)
          /\ accounts[NewUid] = "absent"
          /\ accounts' = [accounts EXCEPT ![NewUid] = "live"]
          /\ authUser' = NewUid
          /\ queue' = Notify(queue, authUser, NewUid)
          /\ signUp' = Awaiting([signUp EXCEPT !.uid = NewUid], "updateProfile")
    /\ UNCHANGED <<settings, dateNow, dialog, redirect, user, loading, verified, passes, profiles, localStore, now,
                   signIn, signOutOp, reset, google, opsCalled, lastNote, ended>>

\* catch (error): await deleteUser(userToVerify).catch(...)
Caught(op, e) == Awaiting([op EXCEPT !.err = e], "deleteUser")

\* await updateProfile(userToVerify, { displayName: name })
SignUp_updateProfile ==
    /\ PageAlive
    /\ signUp.pc = "updateProfile"
    /\ \/ signUp' = Awaiting(signUp, "sendEmailVerification")
       \/ \E e \in BlockErrs("updateProfile") : signUp' = Caught(signUp, e)
    /\ UNCHANGED <<settings, dateNow, dialog, redirect, user, loading, authUser, accounts, verified, queue, passes, profiles,
                   localStore, now, signIn, signOutOp, reset, google, opsCalled,
                   lastNote, ended>>

\* await sendEmailVerification(userToVerify); then setDoc(...) is called
SignUp_sendEmailVerification ==
    /\ PageAlive
    /\ signUp.pc = "sendEmailVerification"
    /\ \/ \E t \in Dates :
             /\ now' = t
             /\ signUp' = Awaiting([signUp EXCEPT !.ts = t], "setDoc")
       \/ /\ \E e \in BlockErrs("sendEmailVerification") : signUp' = Caught(signUp, e)
          /\ UNCHANGED now
    /\ UNCHANGED <<settings, dateNow, dialog, redirect, user, loading, authUser, accounts, verified, queue, passes, profiles,
                   localStore, signIn, signOutOp, reset, google, opsCalled,
                   lastNote, ended>>

\* Mutant: the sign-up seeds the collections from localStorage.
NewProfileSeeded(old, ts) ==
    [exists |-> TRUE, displayName |-> ProviderUser(NewUid).displayName,
     email |-> ProviderUser(NewUid).email, photoURL |-> Null,
     lastLogin |-> ts, createdAt |-> ts,
     cookbook |-> ReadLocal(localStore.cookbookRecipes),
     variationBook |-> ReadLocal(localStore.variationBook), seeded |-> old.seeded,
     createdFirst |-> IF old.exists THEN old.createdFirst ELSE ts]

\* setDoc(ref, data) without merge: the document is replaced by data.
NewProfile(old, ts) ==
    [exists |-> TRUE, displayName |-> ProviderUser(NewUid).displayName,
     email |-> ProviderUser(NewUid).email, photoURL |-> Null,
     lastLogin |-> ts, createdAt |-> ts, cookbook |-> <<>>,
     variationBook |-> <<>>, seeded |-> old.seeded,
     createdFirst |-> IF old.exists THEN old.createdFirst ELSE ts]

\* await setDoc(doc(db, "users", uid), {...}); then firebaseSignOut is called
SignUp_setDoc ==
    /\ PageAlive
    /\ signUp.pc = "setDoc"
    /\ \/ /\ profiles' = [profiles EXCEPT ![signUp.uid] = NewProfile(@, signUp.ts)]
          /\ signUp' = Awaiting(signUp, "firebaseSignOut")
       \/ /\ \E e \in BlockErrs("setDoc") : signUp' = Caught(signUp, e)
          /\ UNCHANGED profiles
    /\ UNCHANGED <<settings, dateNow, dialog, redirect, user, loading, authUser, accounts, verified, queue, passes,
                   localStore, now, signIn, signOutOp, reset, google, opsCalled,
                   lastNote, ended>>

\* await firebaseSignOut(auth), the last statement of the try block
SignUp_firebaseSignOut ==
    /\ PageAlive
    /\ signUp.pc = "firebaseSignOut"
    /\ \/ /\ ProviderSignsOut
          /\ signUp' = Done(signUp, Resolved)
       \/ /\ \E e \in BlockErrs("firebaseSignOut") : signUp' = Caught(signUp, e)
          /\ UNCHANGED <<authUser, queue>>
    /\ UNCHANGED <<settings, dateNow, dialog, redirect, user, loading, accounts, verified, passes, profiles, localStore, now,
                   signIn, signOutOp, reset, google, opsCalled, lastNote, ended>>

\* if (error.code === 'auth/network-request-failed' ||
\*     error.message.includes('sendEmailVerification')) throw new Error(...); throw error
SurfacedError(error) ==
    IF error.code = NetworkFailed \/ error.mentions THEN VerificationSendFailed ELSE error

\* Mutant: deleteUser's rejection is not caught.
CleanupErrorSurfaces(error, cleanupError) ==
    IF cleanupError # NoErr THEN cleanupError ELSE SurfacedError(error)

\* What the caller gets after the cleanup, whose own failure (cleanupError, NoErr
\* when deleteUser succeeded) was caught and logged.
AfterCleanup(error, cleanupError) == SurfacedError(error)

\* await deleteUser(userToVerify).catch(e => console.error(...)); throw ...
SignUp_deleteUser ==
    /\ PageAlive
    /\ signUp.pc = "deleteUser"
    /\ \/ /\ accounts' = [accounts EXCEPT ![signUp.uid] = "deleted"]
          /\ authUser' = IF authUser = signUp.uid THEN NoUser ELSE authUser
          /\ queue' = Notify(queue, authUser, authUser')
          /\ signUp' = Done(signUp, AfterCleanup(signUp.err, NoErr))
       \/ /\ \E e \in Errs("deleteUser") : signUp' = Done(signUp, AfterCleanup(signUp.err, e))
          /\ UNCHANGED <<authUser, accounts, queue>>
    /\ UNCHANGED <<settings, dateNow, dialog, redirect, user, loading, verified, passes, profiles, localStore, now,
                   signIn, signOutOp, reset, google, opsCalled, lastNote, ended>>

\* -------------------------------------------------------- the environment
\* The verification email of the new account has been sent.
VerificationEmailSent ==
    \/ profiles[NewUid].exists
    \/ signUp.pc = "setDoc"
    \/ signUp.err.src = "setDoc"

\* The owner of the new account follows the link of the verification email:
\* the identity provider reports emailVerified from the next sign-in on.
VerifyEmail ==
    /\ PageAlive
    /\ accounts[NewUid] = "live"
    /\ NewUid \notin verified
    /\ VerificationEmailSent
    /\ verified' = verified \cup {NewUid}
    /\ UNCHANGED <<settings, dateNow, dialog, redirect, user, loading, authUser, accounts, queue, passes, profiles,
                   localStore, now, signIn, signUp, signOutOp, reset, google,
                   opsCalled, lastNote, ended>>

\* The session is kept in the browser's local storage, which the tabs of the
\* application share: the verified user signs in in another tab, and
\* onAuthStateChanged reports it in this one.
OtherTabSignsIn ==
    /\ PageAlive
    /\ authUser = NoUser
    /\ authUser' = "a1"
    /\ queue' = Notify(queue, authUser, "a1")
    /\ UNCHANGED <<settings, dateNow, dialog, redirect, user, loading, accounts, verified, passes, profiles, localStore,
                   now, signIn, signUp, signOutOp, reset, google, opsCalled, lastNote,
                   ended>>

\* ----------------------------------------------------------- the auth dialog
\* The dialog's React state (isLoading, signInEmail, signInError, signUpError,
\* resetEmailSent), the isOpen prop, the handlers suspended at their await
\* (awaits), the toasts it showed and localStorage's 'lastSignInEmail'.
InvalidCredentials == "Invalid email or password."
VerifyFirst == "Please verify your email before signing in."
Unexpected == "An unexpected error occurred. Please try again."
EnterEmailFirst == "Please enter your email address first."
AlreadyExists == "An account with this email already exists. Please sign in or use a different email."
CouldNotSend == "Couldn't send verification email. Please try again or use a different email."

\* The hook's call a handler of the dialog awaits.
Awaited(handler) ==
    CASE handler = "handleGoogleSignIn" -> google
      [] handler = "handleSignIn" -> signIn
      [] handler = "handleSignUp" -> signUp
      [] handler = "handleForgotPassword" -> reset

\* A click is handled once the continuations of the settled promises have run.
CanClick ==
    /\ PageAlive
    /\ dialog.isOpen
    /\ \A handler \in dialog.awaits : Awaited(handler).pc # "done"

\* The parent opens the dialog; useEffect(() => { if (isOpen) { ... } }).
OpenDialog ==
    /\ PageAlive
    /\ ~dialog.isOpen
    /\ dialog' = [dialog EXCEPT !.isOpen = TRUE,
                                !.signInEmail = IF dialog.lastSignInEmail # Null
                                                THEN dialog.lastSignInEmail ELSE @]
    /\ UNCHANGED <<settings, dateNow, user, loading, authUser, accounts, verified, queue, passes, profiles,
                   localStore, now, signIn, signUp, signOutOp, reset, google, opsCalled,
                   lastNote, ended, redirect>>

\* The button "Sign in with Google", rendered unless resetEmailSent and
\* disabled while isLoading: setIsLoading(true); await signInWithGoogle().
HandleGoogleSignIn ==
    /\ CanClick
    /\ ~dialog.resetEmailSent
    /\ ~dialog.isLoading
    /\ "handleGoogleSignIn" \notin dialog.awaits
    /\ SignInWithGoogleCall
    /\ dialog' = [dialog EXCEPT !.isLoading = TRUE,
                                !.awaits = @ \cup {"handleGoogleSignIn"}]

\* handleGoogleSignIn resumes: only its catch block clears isLoading.
HandleGoogleSignIn_returns ==
    /\ PageAlive
    /\ "handleGoogleSignIn" \in dialog.awaits
    /\ google.pc = "done"
    /\ dialog' = [dialog EXCEPT !.awaits = @ \ {"handleGoogleSignIn"},
                                !.isLoading = IF google.result # Resolved THEN FALSE ELSE @]
    /\ UNCHANGED <<settings, dateNow, user, loading, authUser, accounts, verified, queue, passes, profiles,
                   localStore, now, signIn, signUp, signOutOp, reset, google, opsCalled,
                   lastNote, ended, redirect>>

\* The sign-in form is submitted with the email of account `target`; its
\* submit button is disabled while isLoading.
HandleSignIn(target) ==
    /\ CanClick
    /\ ~dialog.resetEmailSent
    /\ ~dialog.isLoading
    /\ "handleSignIn" \notin dialog.awaits
    /\ SignInWithEmailCall(target)
    /\ dialog' = [dialog EXCEPT !.signInEmail = ProviderUser(target).email,
                                !.isLoading = TRUE,
                                !.signInError = Null,
                                !.resetEmailSent = FALSE,
                                !.awaits = @ \cup {"handleSignIn"}]

\* The text handleSignIn's catch block shows for the error e.
SignInErrorText(e) ==
    IF e.code \in {"auth/wrong-password", "auth/user-not-found", "auth/invalid-credential"}
    THEN InvalidCredentials
    ELSE IF e.src = "Email not verified" THEN VerifyFirst ELSE Unexpected

\* handleSignIn resumes: try, catch and finally.
HandleSignIn_returns ==
    /\ PageAlive
    /\ "handleSignIn" \in dialog.awaits
    /\ signIn.pc = "done"
    /\ dialog' =
          LET d == [dialog EXCEPT !.awaits = @ \ {"handleSignIn"}, !.isLoading = FALSE]
          IN IF signIn.result = Resolved
             THEN [d EXCEPT !.lastSignInEmail = ProviderUser(signIn.arg[1]).email,
                            !.isOpen = FALSE]
             ELSE [d EXCEPT !.signInError = SignInErrorText(signIn.result)]
    /\ UNCHANGED <<settings, dateNow, user, loading, authUser, accounts, verified, queue, passes, profiles,
                   localStore, now, signIn, signUp, signOutOp, reset, google, opsCalled,
                   lastNote, ended, redirect>>

\* The sign-up form is submitted; its submit button is disabled while isLoading.
HandleSignUp(email) ==
    /\ CanClick
    /\ ~dialog.resetEmailSent
    /\ ~dialog.isLoading
    /\ "handleSignUp" \notin dialog.awaits
    /\ SignUpWithEmailCall(email)
    /\ dialog' = [dialog EXCEPT !.isLoading = TRUE,
                                !.signUpError = Null,
                                !.awaits = @ \cup {"handleSignUp"}]

\* The text handleSignUp's catch block shows for the error e, whose message
\* is e.src.
SignUpErrorText(e) ==
    IF e.code = "auth/email-already-in-use" THEN AlreadyExists
    ELSE IF e.src = "Failed to send verification email." THEN CouldNotSend
    ELSE IF e.src # "" THEN e.src ELSE Unexpected

\* handleSignUp resumes: try, catch and finally.
HandleSignUp_returns ==
    /\ PageAlive
    /\ "handleSignUp" \in dialog.awaits
    /\ signUp.pc = "done"
    /\ dialog' =
          LET d == [dialog EXCEPT !.awaits = @ \ {"handleSignUp"}, !.isLoading = FALSE]
          IN IF signUp.result = Resolved
             THEN [d EXCEPT !.toasts = Append(@, "Check your email!"), !.isOpen = FALSE]
             ELSE [d EXCEPT !.signUpError = SignUpErrorText(signUp.result)]
    /\ UNCHANGED <<settings, dateNow, user, loading, authUser, accounts, verified, queue, passes, profiles,
                   localStore, now, signIn, signUp, signOutOp, reset, google, opsCalled,
                   lastNote, ended, redirect>>

\* signInError.includes("password") || signInError.includes("found"): the
\* link "Forgot password?" is rendered under such an error only.
ForgotLinkShown(text) == text \in {InvalidCredentials}

\* The emails the sign-in field holds when the link is clicked: empty, or the
\* email of an account (registered or not).
NoEmail == ""
EmailOf(target) == IF target = NoUser THEN NoEmail ELSE ProviderUser(target).email

\* The link "Forgot password?" is clicked with the sign-in field holding the
\* email of `target`: if (!signInEmail) { setSignInError(...); return; } ...
HandleForgotPassword(target) ==
    /\ CanClick
    /\ ~dialog.resetEmailSent
    /\ ForgotLinkShown(dialog.signInError)
    /\ IF EmailOf(target) = NoEmail
       THEN /\ dialog' = [dialog EXCEPT !.signInEmail = NoEmail,
                                        !.signInError = EnterEmailFirst]
            /\ UNCHANGED <<settings, dateNow, user, loading, authUser, accounts, verified, queue, passes,
                           profiles, localStore, now, signIn, signUp, signOutOp, reset,
                           google, opsCalled, lastNote, ended, redirect>>
       ELSE /\ SendPasswordResetCall(target)
            /\ UNCHANGED settings
            /\ dialog' = [dialog EXCEPT !.signInEmail = EmailOf(target),
                                        !.isLoading = TRUE,
                                        !.signInError = Null,
                                        !.resetEmailSent = FALSE,
                                        !.awaits = @ \cup {"handleForgotPassword"}]

\* Mutant: a generic error is shown in place of the success view.
ResetRequestedShowsError(d) == [d EXCEPT !.signInError = Unexpected]

\* setResetEmailSent(true), in the try block and in the catch block alike.
ResetRequested(d) == [d EXCEPT !.resetEmailSent = TRUE]

\* handleForgotPassword resumes: try, catch and finally.
HandleForgotPassword_returns ==
    /\ PageAlive
    /\ "handleForgotPassword" \in dialog.awaits
    /\ reset.pc = "done"
    /\ dialog' =
          LET d == [dialog EXCEPT !.awaits = @ \ {"handleForgotPassword"},
                                  !.isLoading = FALSE]
          IN ResetRequested(d)
    /\ UNCHANGED <<settings, dateNow, user, loading, authUser, accounts, verified, queue, passes, profiles,
                   localStore, now, signIn, signUp, signOutOp, reset, google, opsCalled,
                   lastNote, ended, redirect>>

\* A tab is selected: the errors and the success view are cleared.
HandleTabChange ==
    /\ CanClick
    /\ ~dialog.resetEmailSent
    /\ dialog' = [dialog EXCEPT !.signInError = Null, !.signUpError = Null,
                                !.resetEmailSent = FALSE]
    /\ UNCHANGED <<settings, dateNow, user, loading, authUser, accounts, verified, queue, passes, profiles,
                   localStore, now, signIn, signUp, signOutOp, reset, google, opsCalled,
                   lastNote, ended, redirect>>

\* ------------------------------------------------------- the settings dialog
\* The parent opens or closes the dialog: the effect on [apiKey, isOpen] runs.
SetSettingsOpen(isOpen) ==
    /\ PageAlive
    /\ settings.isOpen # isOpen
    /\ settings' = StoredCooldown([settings EXCEPT !.isOpen = isOpen], dateNow)
    /\ UNCHANGED <<user, loading, authUser, accounts, verified, queue, passes, profiles,
                   localStore, now, signIn, signUp, signOutOp, reset, google, opsCalled,
                   lastNote, ended, redirect, dialog, dateNow>>

\* disabled={isChangingPassword || !!cooldownEndTime}
ChangePasswordDisabled(s) == s.isChangingPassword \/ s.cooldownEndTime # NoTime

\* The button "Change Password", rendered for a signed-in user, is clicked:
\* if (!user || !user.email) return; setIsChangingPassword(true); await ...
HandleChangePassword ==
    /\ PageAlive
    /\ settings.isOpen
    /\ user # NoUser
    /\ ~ChangePasswordDisabled(settings)
    /\ ~(settings.awaits /\ reset.pc = "done")
    /\ IF ProviderUser(user).email = NoEmail
       THEN UNCHANGED vars
       ELSE /\ SendPasswordResetCall(user)
            /\ settings' = [settings EXCEPT !.isChangingPassword = TRUE, !.awaits = TRUE]
            /\ UNCHANGED dialog

\* const endTime = Date.now() + PASSWORD_COOLDOWN_MS
CooldownEnd(t) == t + PASSWORD_COOLDOWN_MS

\* handleChangePassword resumes: try, catch (empty) and finally.
HandleChangePassword_returns ==
    /\ PageAlive
    /\ settings.awaits
    /\ reset.pc = "done"
    /\ settings' =
          LET s == [settings EXCEPT !.awaits = FALSE, !.isChangingPassword = FALSE]
              endTime == CooldownEnd(dateNow)
          IN IF reset.result = Resolved
             THEN UpdateRemaining([s EXCEPT !.toasts = Append(@, "Email Sent"),
                                            !.cooldownEndTime = <<endTime>>,
                                            !.passwordCooldownEnd = String(endTime),
                                            !.requestedAt = <<dateNow>>], dateNow)
             ELSE s
    /\ UNCHANGED <<user, loading, authUser, accounts, verified, queue, passes, profiles,
                   localStore, now, signIn, signUp, signOutOp, reset, google, opsCalled,
                   lastNote, ended, redirect, dialog, dateNow>>

\* setInterval(updateRemaining, 1000) fires.
Settings_updateRemaining ==
    /\ PageAlive
    /\ settings.cooldownEndTime # NoTime
    /\ settings' = UpdateRemaining(settings, dateNow)
    /\ UNCHANGED <<user, loading, authUser, accounts, verified, queue, passes, profiles,
                   localStore, now, signIn, signUp, signOutOp, reset, google, opsCalled,
                   lastNote, ended, redirect, dialog, dateNow>>

\* Date.now() has grown when it is read next.
TimePasses ==
    /\ dateNow + TimeStep <= MaxTimeSteps * TimeStep
    /\ dateNow' = dateNow + TimeStep
    /\ UNCHANGED <<user, loading, authUser, accounts, verified, queue, passes, profiles,
                   localStore, now, signIn, signUp, signOutOp, reset, google, opsCalled,
                   lastNote, ended, redirect, dialog, settings>>

\* The page is loaded again: the calls in progress are gone, the hook and the
\* dialogs are constructed anew, localStorage and the identity provider's
\* session are kept.
Reload ==
    /\ user' = NoUser
    /\ loading' = TRUE
    /\ queue' = <<[u |-> authUser, verified |-> authUser \in verified]>>
    /\ passes' = <<>>
    /\ signIn' = IdleOp
    /\ signUp' = IdleOp
    /\ signOutOp' = IdleOp
    /\ reset' = IdleOp
    /\ google' = IdleOp
    /\ lastNote' = NoNote
    /\ ended' = NotEnded
    /\ redirect' = [IdleOp EXCEPT !.pc = "getRedirectResult",
                                  !.calls = <<"getRedirectResult">>]
    /\ dialog' = [isOpen |-> FALSE, isLoading |-> FALSE, signInEmail |-> "",
                  signInError |-> Null, signUpError |-> Null,
                  resetEmailSent |-> FALSE, awaits |-> {}, toasts |-> <<>>,
                  lastSignInEmail |-> dialog.lastSignInEmail]
    /\ settings' = Mounted(settings.passwordCooldownEnd, settings.requestedAt, dateNow)
    /\ UNCHANGED <<authUser, accounts, verified, profiles, localStore, now, opsCalled,
                   dateNow>>

\* ------------------------------------------------------------ specification
Next ==
    \/ HandleUser
    \/ \E i \in 1..MaxPasses : HandleUser_getDoc(i)
    \/ \E i \in 1..MaxPasses : HandleUser_setDoc(i)
    \/ \E i \in 1..MaxPasses : HandleUser_updateDoc(i)
    \/ SignOut
    \/ SignOut_firebaseSignOut
    \/ \E target \in Uids : SignInWithEmail(target)
    \/ SignIn_signInWithEmailAndPassword
    \/ SignIn_firebaseSignOut
    \/ SignIn_updateDoc
    \/ \E target \in {"a1", NewUid} : SendPasswordReset(target)
    \/ SendPasswordReset_sendPasswordResetEmail
    \/ SignInWithGoogle
    \/ SignInWithGoogle_signInWithRedirect
    \/ \E email \in Emails : SignUpWithEmail(email)
    \/ SignUp_createUser
    \/ SignUp_updateProfile
    \/ SignUp_sendEmailVerification
    \/ SignUp_setDoc
    \/ SignUp_firebaseSignOut
    \/ SignUp_deleteUser

Spec == Init /\ [][Next]_vars

\* The life of an account: sign-up, verification of the email, sign-in and
\* sign-out, with the passes of handleUser they start.
NextVerify ==
    \/ HandleUser
    \/ \E i \in 1..MaxPasses : HandleUser_getDoc(i)
    \/ \E i \in 1..MaxPasses : HandleUser_setDoc(i)
    \/ \E i \in 1..MaxPasses : HandleUser_updateDoc(i)
    \/ SignOut
    \/ SignOut_firebaseSignOut
    \/ \E target \in {"a1", NewUid} : SignInWithEmail(target)
    \/ SignIn_signInWithEmailAndPassword
    \/ SignIn_firebaseSignOut
    \/ SignIn_updateDoc
    \/ SignUpWithEmail(<<"user", "@", "gmail.com">>)
    \/ SignUp_createUser
    \/ SignUp_updateProfile
    \/ SignUp_sendEmailVerification
    \/ SignUp_setDoc
    \/ SignUp_firebaseSignOut
    \/ SignUp_deleteUser
    \/ VerifyEmail

SpecVerify == Init /\ [][NextVerify]_vars

\* The start of the application: the subscription and the redirect-result
\* check race with each other and with the first calls of signInWithGoogle
\* and signOut.
NextStartup ==
    \/ HandleUser
    \/ \E i \in 1..MaxPasses : HandleUser_getDoc(i)
    \/ \E i \in 1..MaxPasses : HandleUser_setDoc(i)
    \/ SignOut
    \/ SignOut_firebaseSignOut
    \/ SignInWithGoogle
    \/ SignInWithGoogle_signInWithRedirect
    \/ GetRedirectResult

SpecStartup == Init /\ [][NextStartup]_vars

\* Signing out and in again: signOut with the steps of its await told apart,
\* and the session changing from another tab.
NextSignOut ==
    \/ HandleUser
    \/ \E i \in 1..MaxPasses : HandleUser_getDoc(i)
    \/ \E i \in 1..MaxPasses : HandleUser_setDoc(i)
    \/ \E i \in 1..MaxPasses : HandleUser_updateDoc(i)
    \/ SignOut
    \/ SignOut_firebaseSignOut
    \/ SignOut_sessionEnds
    \/ SignOut_resumes
    \/ OtherTabSignsIn

SpecSignOut == Init /\ [][NextSignOut]_vars

\* The auth dialog: its handlers, the calls of the hook they make, and the
\* passes of handleUser those start.
NextDialog ==
    \/ HandleUser
    \/ \E i \in 1..MaxPasses : HandleUser_getDoc(i)
    \/ \E i \in 1..MaxPasses : HandleUser_setDoc(i)
    \/ \E i \in 1..MaxPasses : HandleUser_updateDoc(i)
    \/ OpenDialog
    \/ HandleTabChange
    \/ HandleGoogleSignIn
    \/ SignInWithGoogle_signInWithRedirect
    \/ HandleGoogleSignIn_returns
    \/ \E target \in {"a1", NewUid} : HandleSignIn(target)
    \/ SignIn_signInWithEmailAndPassword
    \/ SignIn_firebaseSignOut
    \/ SignIn_updateDoc
    \/ HandleSignIn_returns
    \/ \E email \in {<<"user", "@", "gmail.com">>, <<"user", "@", "contoso.io">>} :
          HandleSignUp(email)
    \/ SignUp_createUser
    \/ SignUp_updateProfile
    \/ SignUp_sendEmailVerification
    \/ SignUp_setDoc
    \/ SignUp_firebaseSignOut
    \/ SignUp_deleteUser
    \/ HandleSignUp_returns
    \/ \E target \in {NoUser, "a1", NewUid} : HandleForgotPassword(target)
    \/ SendPasswordReset_sendPasswordResetEmail
    \/ HandleForgotPassword_returns

SpecDialog == Init /\ [][NextDialog]_vars

\* The settings dialog's password cooldown: the request, the clock, the
\* interval and the page being loaded again.
NextSettings ==
    \/ HandleUser
    \/ \E i \in 1..MaxPasses : HandleUser_getDoc(i)
    \/ \E i \in 1..MaxPasses : HandleUser_setDoc(i)
    \/ \E i \in 1..MaxPasses : HandleUser_updateDoc(i)
    \/ \E isOpen \in BOOLEAN : SetSettingsOpen(isOpen)
    \/ HandleChangePassword
    \/ SendPasswordReset_sendPasswordResetEmail
    \/ HandleChangePassword_returns
    \/ Settings_updateRemaining
    \/ TimePasses
    \/ Reload

\* The interval keeps firing while it is set.
SpecSettings == Init /\ [][NextSettings]_vars /\ WF_vars(Settings_updateRemaining)
\* ------------------------------------------------------------------- claims
Count(seq, x) == Cardinality({i \in 1..Len(seq) : seq[i] = x})
BlockSteps == {"updateProfile", "sendEmailVerification", "setDoc", "firebaseSignOut"}

\* C1 (verification gate): currentUser is non-null only if the notification
\* delivered last reported that user with a verified email; after a
\* notification with no user or an unverified user, currentUser is none.
C1_VerificationGate ==
    user # NoUser => (lastNote.u = user /\ lastNote.verified)

\* C1's case: the provider's session is an unverified user, its notification
\* was delivered, and currentUser is none.
C1_Witness ==
    /\ lastNote.u = "a2"
    /\ ~lastNote.verified
    /\ authUser = "a2"
    /\ user = NoUser

\* C2 (idempotent provisioning): a Profile is seeded from Pending Local Data
\* once, and the createdAt of its first write is never overwritten.
C2_IdempotentProvisioning ==
    \A u \in Uids :
        profiles[u].exists =>
            /\ profiles[u].seeded <= 1
            /\ profiles[u].createdAt = profiles[u].createdFirst
\* The domain of an email address: what follows its last "@", if it has one.
RECURSIVE LastAt(_, _)
LastAt(email, i) == IF i = 0 \/ email[i] = "@" THEN i ELSE LastAt(email, i - 1)
HasAllowedDomain(email) ==
    LET at == LastAt(email, Len(email))
    IN at > 0 /\ SubSeq(email, at + 1, Len(email)) \in ALLOWED_DOMAINS

\* C3 (domain allowlist): signUpWithEmail rejects with DomainNotAllowed, having
\* made no remote call, every email whose domain is missing or not in the
\* allowlist, and calls createAccount for every email whose domain is in it.
C3_DomainAllowlist ==
    signUp.pc # "idle" =>
        IF HasAllowedDomain(signUp.arg)
        THEN signUp.calls # <<>> /\ signUp.calls[1] = "createUserWithEmailAndPassword"
        ELSE signUp.pc = "done" /\ signUp.result = DomainNotAllowed /\ signUp.calls = <<>>

\* C4 (rollback on verification failure): when sendEmailVerification has failed,
\* with whatever error, deleteUser is attempted and the caller gets
\* VerificationSendFailed.
C4_VerificationFailureSurfaced ==
    (signUp.pc = "done" /\ signUp.err.src = "sendEmailVerification") =>
        /\ Count(signUp.calls, "deleteUser") = 1
        /\ signUp.result = VerificationSendFailed

\* C5 (cleanup): after a failure of a step of the try block, deleteUser is
\* attempted exactly once before signUpWithEmail returns, and the caller gets
\* the original failure or VerificationSendFailed, never deleteUser's failure.
C5_CleanupOnceNeverSurfaced ==
    signUp.err.src \in BlockSteps =>
        /\ Count(signUp.calls, "deleteUser") = 1
        /\ signUp.pc \in {"deleteUser", "done"}
        /\ signUp.pc = "done" =>
              /\ signUp.result \in {signUp.err, VerificationSendFailed}
              /\ signUp.result.src # "deleteUser"

\* C5's case: Profile creation failed, the cleanup failed too (the account is
\* still there), and the caller got the Profile Store's failure.
C5_Witness ==
    /\ signUp.pc = "done"
    /\ signUp.err.src = "setDoc"
    /\ accounts[NewUid] = "live"
    /\ signUp.result = signUp.err

\* C6 (unverified sign-in): signInWithEmail for an account whose email is not
\* verified forces a sign-out and fails with NotVerified and nothing else; it
\* writes no Profile, shows no welcome, and the account never is currentUser.
C6_UnverifiedSignIn ==
    (signIn.uid # NoUser /\ signIn.uid \notin verified) =>
        /\ user # signIn.uid
        /\ Count(signIn.calls, "firebaseSignOut") = 1
        /\ Count(signIn.calls, "updateDoc") = 0
        /\ signIn.toasts = <<>>
        /\ signIn.pc = "done" => signIn.result = NotVerified

\* C7 (verified sign-in): when no call fails for a reason of the collaborator's
\* own, signInWithEmail for a verified account resolves, with lastLogin written
\* and one welcome notification, whether or not a Profile exists already.
C7_VerifiedSignInSucceeds ==
    (signIn.pc = "done" /\ signIn.uid \in verified /\ signIn.err.code # "other") =>
        /\ signIn.result = Resolved
        /\ signIn.toasts = <<"Welcome back">>
        /\ profiles[signIn.uid].exists

C10_ResolvedDespiteFailure ==
    (/\ lastNote # NoNote
     /\ ReadLocal(localStore.cookbookRecipes) # ParseError
     /\ ReadLocal(localStore.variationBook) # ParseError
     /\ queue = <<>>
     /\ passes = <<>>
     /\ PageAlive
     /\ ~InFlight(google)) => loading = FALSE

\* C11 (unresolved until the first notification): as long as onAuthStateChanged
\* has delivered no notification, loading is true and user is null, whatever
\* operation was called in the meantime.
C11_UnresolvedUntilFirstNotification ==
    lastNote = NoNote => (loading = TRUE /\ user = NoUser)

\* A collection of the Pending Local Data, the empty sequence standing for an
\* item that is missing or is not JSON.
PendingOrEmpty(item) ==
    IF ReadLocal(item) = ParseError THEN <<>> ELSE ReadLocal(item)

\* C12 (provisioning from the local data): a pass that found no Profile goes on
\* to the upsert, whatever localStorage holds, and the upsert's collections are
\* the local ones, empty for an item that is missing or malformed.
C12_ProvisionsFromLocalData ==
    /\ ended.how # "parse error"
    /\ \A i \in 1..Len(passes) :
          passes[i].pc = "setDoc" =>
             /\ passes[i].data.cookbook = PendingOrEmpty(localStore.cookbookRecipes)
             /\ passes[i].data.variationBook = PendingOrEmpty(localStore.variationBook)

\* Every field of the document but lastLogin is the same.
OnlyLastLoginChanged(old, new) ==
    \A f \in DOMAIN old \ {"lastLogin"} : new[f] = old[f]

\* C13 (a present Profile is kept): a pass that found the Profile writes
\* lastLogin and nothing else: the write leaves displayName, email, photoURL,
\* createdAt and both collections of every Profile as they were, and the pass
\* does not read localStorage (a malformed item does not stop it).
C13_PresentProfileKept ==
    /\ [](\A i \in 1..Len(passes) :
            passes[i].pc = "updateDoc" => DOMAIN passes[i].data = {"lastLogin"})
    /\ [][\A i \in 1..Len(passes) :
            /\ HandleUser_updateDoc(i) =>
                  \A u \in Uids : OnlyLastLoginChanged(profiles[u], profiles'[u])
            /\ (/\ passes[i].pc = "getDoc"
                /\ profiles[passes[i].u].exists
                /\ passes' = RemoveAt(passes, i)) => ended'.how # "parse error"]_vars

\* C13's case: localStorage is malformed, the Profile of the verified user was
\* there, and the pass has written lastLogin and ended.
C13_Witness ==
    /\ localStore.variationBook = "{bad"
    /\ user = NewUid
    /\ passes = <<>>
    /\ ended.how = "completed"
    /\ ended.branch = "verified"
    /\ profiles[NewUid].exists
    /\ profiles[NewUid].displayName = "Ada"
    /\ profiles[NewUid].lastLogin = 1
    /\ profiles[NewUid].createdAt = 0

\* C14 (monotonic login time): the clock never going back, a write to a
\* Profile that exists stores a lastLogin at least as large as the one it
\* replaces.
C14_MonotonicLoginTime ==
    [][\A u \in Uids :
          (profiles[u].exists /\ profiles'[u].exists) =>
             profiles'[u].lastLogin >= profiles[u].lastLogin]_vars

\* The remote steps of a sign-up, in the order of the code.
SignUpSteps ==
    <<"createUserWithEmailAndPassword", "updateProfile", "sendEmailVerification",
      "setDoc", "firebaseSignOut">>

\* C15 (order of a sign-up): the steps are called in the order createUser,
\* updateProfile, sendEmailVerification, setDoc, firebaseSignOut (deleteUser
\* after a failure); a sign-up that succeeded has called all five and has
\* created the Profile with empty collections; the Profile is there only
\* after the verification email was sent; and user is never the new account
\* as long as its email is not verified.
C15_SignUpOrder ==
    /\ [](/\ \E k \in 0..Len(SignUpSteps) :
                \/ signUp.calls = SubSeq(SignUpSteps, 1, k)
                \/ signUp.calls = Append(SubSeq(SignUpSteps, 1, k), "deleteUser")
          /\ (signUp.pc = "done" /\ signUp.result = Resolved) =>
                (signUp.calls = SignUpSteps /\ profiles[NewUid].exists)
          /\ (signUp.uid = NewUid /\ profiles[NewUid].exists) =>
                Len(signUp.calls) >= 4
          /\ user = NewUid => NewUid \in verified)
    /\ [][(signUp.pc = "setDoc" /\ signUp'.pc = "firebaseSignOut") =>
            /\ profiles'[NewUid].exists
            /\ profiles'[NewUid].cookbook = <<>>
            /\ profiles'[NewUid].variationBook = <<>>]_vars

\* C15's case: the sign-up has succeeded, the notifications it caused were
\* handled, and the email of the new account is not verified.
C15_Witness ==
    /\ signUp.pc = "done"
    /\ signUp.result = Resolved
    /\ NewUid \notin verified
    /\ queue = <<>>
    /\ lastNote.u = NoUser
    /\ user = NoUser
    /\ profiles[NewUid].exists

\* C16 (failures of the sign-up block): a failure of a step of the try block
\* with code auth/network-request-failed reaches the caller as
\* VerificationSendFailed, and a failure with another code of a step other
\* than sendEmailVerification reaches the caller unchanged.
C16_SignUpFailureMapping ==
    (signUp.pc = "done" /\ signUp.err.src \in BlockSteps) =>
        /\ signUp.err.code = NetworkFailed => signUp.result = VerificationSendFailed
        /\ (signUp.err.code # NetworkFailed /\ signUp.err.src # "sendEmailVerification")
              => signUp.result = signUp.err

\* C17 (account creation fails): when createUserWithEmailAndPassword has
\* failed, the caller gets that failure unchanged and no other step was
\* called: no deleteUser, updateProfile, sendEmailVerification, setDoc or
\* firebaseSignOut; no account and no Profile were created.
C17_CreateFailurePropagates ==
    signUp.err.src = "createUserWithEmailAndPassword" =>
        /\ signUp.pc = "done"
        /\ signUp.result = signUp.err
        /\ signUp.calls = <<"createUserWithEmailAndPassword">>
        /\ signUp.uid = NoUser

\* C17's case: the first sign-up on the device has failed in createUser.
C17_Witness ==
    /\ signUp.pc = "done"
    /\ signUp.err.src = "createUserWithEmailAndPassword"
    /\ accounts[NewUid] = "absent"
    /\ ~profiles[NewUid].exists

\* C18 (signOut never raises): signOut always resolves; when firebaseSignOut
\* succeeded it sets user to null and shows the toast "Signed Out"; when it
\* failed it shows the toast "Sign-Out Failed" with the error's message and
\* leaves user as it was.
C18_SignOutNeverRaises ==
    /\ [](signOutOp.pc = "done" =>
            /\ signOutOp.result = Resolved
            /\ IF signOutOp.err = NoErr
               THEN signOutOp.toasts = <<"Signed Out">>
               ELSE signOutOp.toasts = <<[title |-> "Sign-Out Failed",
                                          description |-> signOutOp.err.src]>>)
    /\ [][(signOutOp.pc = "firebaseSignOut" /\ signOutOp'.pc = "done") =>
            IF signOutOp'.err = NoErr THEN user' = NoUser ELSE user' = user]_vars

\* C18's case: signOut has succeeded for the signed-in user and has cleared
\* `user` itself, the notification of the sign-out being still to come.
C18_Witness ==
    /\ signOutOp.pc = "done"
    /\ signOutOp.err = NoErr
    /\ lastNote.u = "a1"
    /\ queue # <<>>
    /\ passes = <<>>
    /\ user = NoUser

\* C19 (signInWithGoogle and the loading flag): from the call on, loading is
\* true as long as signInWithRedirect has not failed, whatever pass of
\* handleUser ends in the meantime; when it has failed, signInWithGoogle
\* resolves with the toast "Sign-In Failed" carrying the error's message.
C19_LoadingUntilReload ==
    /\ google.pc \in {"signInWithRedirect", "navigated"} => loading = TRUE
    /\ google.pc = "done" =>
          /\ google.result = Resolved
          /\ google.toasts = <<[title |-> "Sign-In Failed",
                                description |-> google.err.src]>>

\* The toasts the redirect-result check is to show.
RedirectToasts(op) ==
    IF op.err = NoErr
    THEN IF op.uid # NoUser THEN <<"Welcome back">> ELSE <<>>
    ELSE IF op.err.code = StorageUnsupported THEN <<>>
    ELSE <<[title |-> "Sign-In Failed",
            description |-> "An unexpected error occurred during sign-in."]>>

\* C20 (redirect-result check): the check shows the welcome toast for a
\* result, nothing for no result or for auth/web-storage-unsupported, and one
\* generic failure toast for any other error; it raises nothing, and the
\* step in which it settles, before or after the first notification, leaves
\* user and loading as they were.
C20_RedirectCheck ==
    /\ [](redirect.pc = "done" =>
            /\ redirect.result = Resolved
            /\ redirect.toasts = RedirectToasts(redirect))
    /\ [][redirect' # redirect => (user' = user /\ loading' = loading)]_vars

\* C20's case: the check has failed with another error before the first
\* notification was delivered.
C20_Witness ==
    /\ redirect.pc = "done"
    /\ redirect.err.code = "other"
    /\ Len(redirect.toasts) = 1
    /\ lastNote = NoNote
    /\ loading = TRUE
    /\ user = NoUser

\* C21 (one pass at a time): onAuthStateChanged starts handleUser on a
\* notification only when no earlier pass is suspended at an await.
C21_OnePassAtATime ==
    [][Len(queue') < Len(queue) => passes = <<>>]_vars

\* The step is one of handleUser (a notification delivered, a pass resumed) or
\* the one in which signOut's firebaseSignOut settles.
HandlerOrSignOutStep ==
    \/ Len(queue') < Len(queue)
    \/ Len(passes') < Len(passes)
    \/ signOutOp.pc = "firebaseSignOut" /\ signOutOp'.pc = "done"

\* C22 (who writes the session state): user and loading change only in steps
\* of handleUser and of signOut; signInWithGoogle, signInWithEmail,
\* signUpWithEmail, sendPasswordReset and the redirect-result check leave both
\* as they are.
C22_SessionStateWriters ==
    [][(user' # user \/ loading' # loading) => HandlerOrSignOutStep]_vars

\* C23 (credential failures of signInWithEmail): a failure of
\* signInWithEmailAndPassword reaches the caller as the same error, code
\* included; nothing else was called, no toast was shown, and the step leaves
\* the session, the notifications, user and the Profiles as they were.
C23_CredentialFailureUnchanged ==
    /\ [](signIn.err.src = "signInWithEmailAndPassword" =>
            /\ signIn.pc = "done"
            /\ signIn.result = signIn.err
            /\ signIn.result.code \in {"auth/wrong-password", "auth/user-not-found",
                                       "auth/invalid-credential"}
            /\ signIn.calls = <<"signInWithEmailAndPassword">>
            /\ signIn.toasts = <<>>)
    /\ [][(/\ signIn.pc = "signInWithEmailAndPassword"
            /\ signIn'.err.src = "signInWithEmailAndPassword") =>
            UNCHANGED <<user, loading, authUser, queue, passes, profiles>>]_vars

\* C23's case: signInWithEmail for an account that does not exist has failed
\* with auth/user-not-found while a verified user is signed in.
C23_Witness ==
    /\ signIn.pc = "done"
    /\ signIn.arg = <<NewUid>>
    /\ signIn.result.code = "auth/user-not-found"
    /\ user = "a1"
    /\ authUser = "a1"

\* C24 (migration of the local data): when the pass of a verified user has
\* run to its end, the two collections of that user's Profile are the ones
\* of localStorage, for the accounts created by signUpWithEmail as well.
C24_LocalDataMigrated ==
    [][\A i \in 1..Len(passes) :
          (passes' = RemoveAt(passes, i) /\ ended'.how = "completed") =>
             /\ profiles'[passes[i].u].cookbook
                   = PendingOrEmpty(localStore.cookbookRecipes)
             /\ profiles'[passes[i].u].variationBook
                   = PendingOrEmpty(localStore.variationBook)]_vars

\* Nothing is going on: a notification has been delivered, none is waiting,
\* and no pass and no operation is suspended at an await.
Quiescent ==
    /\ lastNote # NoNote
    /\ queue = <<>>
    /\ passes = <<>>
    /\ NumInFlight = 0
    /\ PageAlive

\* C25 (quiescent consistency): when nothing is going on, user is non-null
\* exactly when the identity provider's session is that of a user with a
\* verified email, and then user is that user.
C25_QuiescentConsistency ==
    Quiescent =>
        IF authUser # NoUser /\ authUser \in verified
        THEN user = authUser
        ELSE user = NoUser

\* C26 (no orphan Profile): when signUpWithEmail has failed and its cleanup
\* has deleted the account, the Profile Store holds no document for it.
C26_NoOrphanProfile ==
    (/\ signUp.pc = "done"
     /\ signUp.err.src \in BlockSteps
     /\ accounts[NewUid] = "deleted") => ~profiles[NewUid].exists

\* C27 (no session left by a sign-up): when signUpWithEmail has returned,
\* with success or with a failure, the identity provider's session is not
\* that of the account it created.
C27_NoSessionAfterSignUp ==
    (signUp.pc = "done" /\ signUp.uid = NewUid) => authUser # NewUid

\* The number of "@" in an email.
NumAts(email) == Cardinality({i \in 1..Len(email) : email[i] = "@"})

\* C28 (emails with several "@"): for an email with more than one "@" whose
\* last part is not an allowlisted domain, signUpWithEmail calls nothing and
\* rejects with DomainNotAllowed.
C28_LastDomainDecides ==
    (/\ signUp.pc # "idle"
     /\ NumAts(signUp.arg) > 1
     /\ ~HasAllowedDomain(signUp.arg)) =>
        /\ signUp.pc = "done"
        /\ signUp.result = DomainNotAllowed
        /\ signUp.calls = <<>>

\* C29: in the auth dialog isLoading is false again after every finished
\* action: when no handler of the dialog is suspended and no operation is in
\* flight on a live page, the submit controls are not disabled.
C29_DialogStopsLoading ==
    (dialog.awaits = {} /\ NumInFlight = 0 /\ PageAlive) => ~dialog.isLoading

\* C30: handleForgotPassword with a non-empty email ends with the success view
\* shown, no error text and isLoading false, whatever account the email
\* names and however sendPasswordResetEmail settled; with an empty email it
\* makes no call and sets the inline error.
C30_ForgotPasswordUniform ==
    [][/\ ("handleForgotPassword" \in dialog.awaits
            /\ "handleForgotPassword" \notin dialog'.awaits) =>
               /\ dialog'.resetEmailSent
               /\ dialog'.signInError = Null
               /\ ~dialog'.isLoading
               /\ reset.result = Resolved
               /\ reset.toasts = <<>>
       /\ (ForgotLinkShown(dialog.signInError) /\ dialog'.signInError = EnterEmailFirst) =>
               /\ UNCHANGED <<reset, opsCalled>>
               /\ ~dialog'.resetEmailSent
               /\ dialog'.isLoading = dialog.isLoading]_vars
\* The reset was asked for an email without an account, sendPasswordResetEmail
\* was rejected, and the dialog shows the success view.
C30_Witness ==
    /\ reset.pc = "done"
    /\ reset.arg = <<NewUid>>
    /\ accounts[NewUid] = "absent"
    /\ reset.err # NoErr
    /\ "handleForgotPassword" \notin dialog.awaits
    /\ dialog.resetEmailSent

\* C31 (password cooldown): from the moment handleChangePassword has requested
\* a reset and for the 15 minutes that follow, the end time is in the state
\* and in local storage and the change-password control is disabled, also
\* after the dialog was closed, reopened or loaded again; the cooldown is
\* cleared only once its end time is reached, in the state and in local
\* storage together, which enables the control; and a cooldown whose end
\* time is reached is cleared.
C31_PasswordCooldown ==
    /\ []((settings.requestedAt # NoTime
            /\ dateNow < settings.requestedAt[1] + PASSWORD_COOLDOWN_MS) =>
              /\ ChangePasswordDisabled(settings)
              /\ settings.cooldownEndTime = <<settings.requestedAt[1] + PASSWORD_COOLDOWN_MS>>
              /\ settings.passwordCooldownEnd # NoItem
              /\ ParseInt(settings.passwordCooldownEnd) = settings.cooldownEndTime[1])
    /\ [][(settings.cooldownEndTime # NoTime /\ settings'.cooldownEndTime = NoTime) =>
              /\ dateNow >= settings.cooldownEndTime[1]
              /\ settings'.passwordCooldownEnd = NoItem
              /\ ~ChangePasswordDisabled(settings')]_vars
    /\ (settings.cooldownEndTime # NoTime /\ dateNow >= settings.cooldownEndTime[1])
          ~> (/\ settings.cooldownEndTime = NoTime
              /\ settings.passwordCooldownEnd = NoItem
              /\ ~ChangePasswordDisabled(settings))
\* A reset was requested, time went by, the page was loaded again and the
\* dialog reopened: the control is disabled by the end time read back.
C31_Witness ==
    /\ settings.requestedAt # NoTime
    /\ dateNow > settings.requestedAt[1]
    /\ dateNow < settings.requestedAt[1] + PASSWORD_COOLDOWN_MS
    /\ reset.pc = "idle"
    /\ settings.toasts = <<>>
    /\ settings.isOpen
    /\ user # NoUser
    /\ ChangePasswordDisabled(settings)
====
